---- MODULE Spec2Model ----
(***************************************************************************)
(* fileinfo.py: the traversal-and-record engine of FileInfo.               *)
(*                                                                         *)
(* One run of FileInfo(argv).run() started from the __main__ entry point:  *)
(* run() picks the sink, _show_all() walks the roots, _show() recurses     *)
(* over the children, _stat_str() formats one entry and resolves its owner *)
(* and group through the two caches filled by _get_xname().                *)
(*                                                                         *)
(* Strings are sequences of one-character strings, so that str() and       *)
(* split(';') are computed and not assumed.  A path is the sequence of its *)
(* components.  The recursion of _show is an explicit stack of frames.     *)
(***************************************************************************)
EXTENDS Integers, Sequences, FiniteSets, TLC

\* Longest list of FileEntry arguments explored.
MaxRoots == 2

-----------------------------------------------------------------------------
(* Python values *)

\* Python's None, as a value of a name (owner, group) or of an option.
None == "<None>"

\* The text of str(None).
NoneText == <<"N", "o", "n", "e">>

\* A command line option that holds a string or None.
NoArg == [given |-> FALSE, text |-> <<>>]

SomeArg(text) == [given |-> TRUE, text |-> text]

\* str(exs) of line 269: the text itself, or 'None' for None.
Str(arg) == IF arg.given THEN arg.text ELSE NoneText

\* The index of the first sep in s, or 0.
RECURSIVE Find(_, _, _)
Find(s, sep, i) ==
    IF i > Len(s) THEN 0
    ELSE IF s[i] = sep THEN i
    ELSE Find(s, sep, i + 1)

\* s.split(sep) of line 269: always at least one, possibly empty, piece.
RECURSIVE Split(_, _)
Split(s, sep) ==
    LET i == Find(s, sep, 1)
    IN  IF i = 0 THEN <<s>>
        ELSE <<SubSeq(s, 1, i - 1)>> \o Split(SubSeq(s, i + 1, Len(s)), sep)

Range(s) == {s[i] : i \in 1..Len(s)}

-----------------------------------------------------------------------------
(* The filesystem the run reads *)

nD == <<"d">>
nA == <<"a">>
nF == <<"f">>
nG == <<"g">>
nX == <<"x">>
nL == <<"l">>
nNone == NoneText
nDot == <<".">>

\* The current directory, the path '.' of line 250.
Dot == <<nDot>>

\* What lstat and scandir say of every entry, keyed by the entry's real path
\* (relative to the current directory).  d/l is a symbolic link to d, its own
\* parent: a cycle for any walk that follows links.  nogroup marks an object
\* whose Windows security descriptor names no group.
FS ==
    (Dot            :> [kind |-> "d", uid |-> 0, gid |-> 0, nogroup |-> TRUE,
                        target |-> <<>>, children |-> <<nD>>])
 @@ (<<nD>>         :> [kind |-> "d", uid |-> 1, gid |-> 1, nogroup |-> FALSE,
                        target |-> <<>>, children |-> <<nA, nG, nNone, nL>>])
 @@ (<<nD, nA>>     :> [kind |-> "d", uid |-> 1, gid |-> 0, nogroup |-> FALSE,
                        target |-> <<>>, children |-> <<nF>>])
 @@ (<<nD, nA, nF>> :> [kind |-> "-", uid |-> 1, gid |-> 1, nogroup |-> FALSE,
                        target |-> <<>>, children |-> <<>>])
 @@ (<<nD, nG>>     :> [kind |-> "d", uid |-> 1, gid |-> 1, nogroup |-> FALSE,
                        target |-> <<>>, children |-> <<nX>>])
 @@ (<<nD, nG, nX>> :> [kind |-> "-", uid |-> 2, gid |-> 2, nogroup |-> TRUE,
                        target |-> <<>>, children |-> <<>>])
 @@ (<<nD, nNone>>  :> [kind |-> "-", uid |-> 1, gid |-> 1, nogroup |-> FALSE,
                        target |-> <<>>, children |-> <<>>])
 @@ (<<nD, nL>>     :> [kind |-> "l", uid |-> 0, gid |-> 1, nogroup |-> FALSE,
                        target |-> <<nD>>, children |-> <<>>])

\* The answer for a path that names nothing.
NoPath == <<<<>>>>

Uids == {FS[p].uid : p \in DOMAIN FS}

Gids == {FS[p].gid : p \in DOMAIN FS}

\* The ids the identity databases know; id 2 is in neither.
Passwd == {0, 1}

Groups == {0, 1}

\* The name the identity database holds for an id.
UserName(uid) == IF uid = 0 THEN "root" ELSE "user"

GroupName(gid) == IF gid = 0 THEN "wheel" ELSE "staff"

\* os.path.dirname(file) of line 246: the path without its last component,
\* empty for a single component.
Dirname(path) == SubSeq(path, 1, Len(path) - 1)

\* child.name of line 271: the last component.
BaseName(path) == path[Len(path)]

\* Whether p is q or lies below q.
IsPrefix(q, p) == Len(q) <= Len(p) /\ SubSeq(p, 1, Len(q)) = q

\* The real path of the entry a path names, every symbolic link followed, or
\* NoPath: what stat(2) resolves.
RECURSIVE Resolve(_)
Resolve(path) ==
    IF path = Dot \/ path = <<>> THEN Dot
    ELSE LET dir == Resolve(Dirname(path))
             real == IF dir = Dot THEN <<BaseName(path)>>
                     ELSE Append(dir, BaseName(path))
         IN  IF dir = NoPath \/ real \notin DOMAIN FS THEN NoPath
             ELSE IF FS[real].kind = "l" THEN Resolve(FS[real].target)
             ELSE real

\* The real path of the entry itself, the last component not followed: what
\* lstat(2) resolves.
LResolve(path) ==
    IF path = Dot \/ path = <<>> THEN Dot
    ELSE LET dir == Resolve(Dirname(path))
             real == IF dir = Dot THEN <<BaseName(path)>>
                     ELSE Append(dir, BaseName(path))
         IN  IF dir = NoPath \/ real \notin DOMAIN FS THEN NoPath ELSE real

\* os.path.exists(file), line 291: follows links.
Exists(path) == Resolve(path) # NoPath

\* os.path.isdir(file_path), line 260: follows links.
IsDir(path) == Exists(path) /\ FS[Resolve(path)].kind = "d"

\* os.path.islink(file_path), line 262.
IsLink(path) == LResolve(path) # NoPath /\ FS[LResolve(path)].kind = "l"

\* a_directory.glob('*') of line 267, in the order the filesystem lists the
\* directory: every entry of the directory the path leads to, hidden or not,
\* each as the path joined with the entry's name.
Glob(path) ==
    LET entries == FS[Resolve(path)].children
    IN  [i \in 1..Len(entries) |-> Append(path, entries[i])]

-----------------------------------------------------------------------------
(* State *)

VARIABLES
    args,        \* the parsed command line (self.args)
    platform,    \* platform.system()
    pc,          \* where the run is: run, prime, show, children, returned,
                 \* raised, exited
    file_i,      \* index in args.files of the root _show_all is at
    cur,         \* the argument of the _show call that is about to run
    stack,       \* the _show calls that are in their for-loop, innermost last
    output_file, \* the output_file of _try_to_show: None (NoArg) or the -o file
    my_out,      \* which sink self.my_out is: stdout or file
    out,         \* the lines written to the sink, each with the root it is of
    err,         \* the messages written to sys.stderr
    names,       \* the caches: [unames, gnames], each a function from ids
    lookups,     \* how often fun() ran, per cache and id
    denied,      \* where the filesystem refuses access during the run
    ret,         \* what run() returned, -1 before it returns and if it raises
    exit_code,   \* the exit status of the process, -1 while it runs
    sink_failed, \* whether a write to the sink failed
    walking      \* whether _show_all was entered

vars == <<args, platform, pc, file_i, cur, stack, output_file, my_out, out,
          err, names, lookups, denied, ret, exit_code, sink_failed, walking>>

\* only_for_windows(), lines 14-16.
only_for_windows == platform = "Windows"

-----------------------------------------------------------------------------
(* IdentityResolver: _get_uname, _get_gname, _get_xname *)

\* The outcome of a call that returns val or raises exc.
Returns(val) == [exc |-> "none", val |-> val]

Raises(exc) == [exc |-> exc, val |-> None]

\* path.owner() of line 323: the name of the owner of what the path leads to
\* (pathlib stats through links); KeyError for an id the database lacks;
\* NotImplementedError where pathlib has no owner().
PathOwner(path) ==
    LET uid == FS[Resolve(path)].uid
    IN  IF platform # "Linux" THEN Raises("NotImplementedError")
        ELSE IF uid \in Passwd THEN Returns(UserName(uid))
        ELSE Raises("KeyError")

\* path.group() of line 349.
PathGroup(path) ==
    LET gid == FS[Resolve(path)].gid
    IN  IF platform # "Linux" THEN Raises("NotImplementedError")
        ELSE IF gid \in Groups THEN Returns(GroupName(gid))
        ELSE Raises("KeyError")

\* _get_owner(path), lines 320-338.  The Windows branch reads the owner of the
\* security descriptor of str(path).
GetOwner(path) ==
    LET handle(r) ==
            IF r.exc = "KeyError" THEN Returns("(missing)")
            ELSE IF r.exc = "NotImplementedError"
            THEN IF only_for_windows
                 THEN Returns(UserName(FS[Resolve(path)].uid))
                 ELSE Raises("NotImplementedError")
            ELSE r
    IN  handle(PathOwner(path))

\* _get_group(path), lines 346-366: as _get_owner, but a descriptor without a
\* group gives None.
GetGroup(path) ==
    LET handle(r, e) ==
            IF r.exc = "KeyError" THEN Returns("(missing)")
            ELSE IF r.exc = "NotImplementedError"
            THEN IF only_for_windows
                 THEN IF ~e.nogroup
                      THEN Returns(GroupName(e.gid))
                      ELSE Returns(None)
                 ELSE Raises("NotImplementedError")
            ELSE r
    IN  handle(PathGroup(path), FS[Resolve(path)])

\* A _get_xname that never finds the id in its cache.
NeverHit(xid, xnames) == FALSE

\* Whether _get_xname answers from the cache, line 374.
CacheHit(xid, xnames) == xid \in DOMAIN xnames

\* A _get_xname that stores whatever it resolved, None too.
AlwaysCacheable(xname) == TRUE

\* Whether _get_xname stores the name it resolved, line 383.
Cacheable(xname) == xname # None

\* _get_xname(xid, fun, xnames), lines 369-385, for a call fun() that ends as
\* r: the name returned (or the exception that escapes), the cache afterwards,
\* and whether fun() ran.
GetXname(xid, r, xnames) ==
    IF CacheHit(xid, xnames)
    THEN [exc |-> "none", ret |-> xnames[xid], xnames |-> xnames, called |-> FALSE]
    ELSE IF r.exc \notin {"none", "KeyError", "NotImplementedError"}
    THEN [exc |-> r.exc, ret |-> None, xnames |-> xnames, called |-> TRUE]
    ELSE LET xname == IF r.exc = "KeyError" THEN "(missing)"
                      ELSE IF r.exc = "NotImplementedError" THEN "(not-implemented)"
                      ELSE r.val
         IN  [exc |-> "none", ret |-> xname,
              xnames |-> IF Cacheable(xname) THEN (xid :> xname) @@ xnames
                         ELSE xnames,
              called |-> TRUE]

\* How fun() of line 378 ends for the owner of a path: the stat inside
\* path.owner() raises PermissionError where the filesystem refuses it.
OwnerCall(path) ==
    IF path \in denied.owner THEN Raises("PermissionError") ELSE GetOwner(path)

GroupCall(path) == GetGroup(path)

\* _get_uname(uid, path, unames), lines 315-317.
GetUname(uid, path, unames) == GetXname(uid, OwnerCall(path), unames)

\* _get_gname(gid, path, gnames), lines 341-343.
GetGname(gid, path, gnames) == GetXname(gid, GroupCall(path), gnames)

-----------------------------------------------------------------------------
(* DigestPolicy and EntryFormatter: _sha256, _get_link_symbol, _stat_str *)

\* _sha256(file, mode), lines 414-444, on kind = mode[0]: the digest of a
\* regular file, else the token of the kind.
Sha256(kind) ==
    IF kind = "-" THEN "<hexdigest>"
    ELSE IF kind = "d" THEN "directory"
    ELSE IF kind = "l" THEN "symbolic-link"
    ELSE "Unknown-file-kind"

\* _get_link_symbol(path), lines 392-401: the link's text, empty for no link.
GetLinkSymbol(path) ==
    LET read(real) ==
            IF real # NoPath /\ FS[real].kind = "l" THEN FS[real].target
            ELSE <<>>
    IN  read(LResolve(path))

\* The line of line 292.
NoSuchLine(file) ==
    [kind |-> "nosuch", path |-> file, mode |-> "", uid |-> -1, uname |-> None,
     gid |-> -1, gname |-> None, hash |-> "", link |-> <<>>]

\* The line of lines 310-312.
RecordLine(file, e, uname, gname) ==
    [kind |-> "rec", path |-> file, mode |-> e.kind, uid |-> e.uid,
     uname |-> uname, gid |-> e.gid, gname |-> gname,
     hash |-> Sha256(e.kind), link |-> GetLinkSymbol(file)]

\* The lines of lines 278 and 280.
NoticeLine(kind, file) ==
    [kind |-> kind, path |-> file, mode |-> "", uid |-> -1, uname |-> None,
     gid |-> -1, gname |-> None, hash |-> "", link |-> <<>>]

\* How a _stat_str call ends.
StatResult(exc, line, nm, called) ==
    [exc |-> exc, line |-> line, names |-> nm, called |-> called]

\* _stat_str(file, names), lines 286-312: the line returned (or the
\* PermissionError that escapes), the caches afterwards and the lookups made.
\* os.stat reads the entry itself (follow_symlinks=False); the owner is
\* resolved before the group.
StatStr(file, nm) ==
    LET called(cache, xid, x) == IF x.called THEN {<<cache, xid>>} ELSE {}
        line(e, u, g) ==
            IF u.exc # "none"
            THEN StatResult(u.exc, NoticeLine("none", file),
                            [nm EXCEPT !.unames = u.xnames],
                            called("unames", e.uid, u))
            ELSE IF g.exc # "none"
            THEN StatResult(g.exc, NoticeLine("none", file),
                            [unames |-> u.xnames, gnames |-> g.xnames],
                            called("unames", e.uid, u)
                                \cup called("gnames", e.gid, g))
            ELSE StatResult("none", RecordLine(file, e, u.ret, g.ret),
                            [unames |-> u.xnames, gnames |-> g.xnames],
                            called("unames", e.uid, u)
                                \cup called("gnames", e.gid, g))
        stat(e) == line(e, GetUname(e.uid, file, nm.unames),
                           GetGname(e.gid, file, nm.gnames))
    IN  IF ~Exists(file) THEN StatResult("none", NoSuchLine(file), nm, {})
        ELSE IF file \in denied.stat
        THEN StatResult("PermissionError", NoticeLine("none", file), nm, {})
        ELSE stat(FS[LResolve(file)])

-----------------------------------------------------------------------------
(* TreeWalker: run, _try_to_show, _show_all, _dir_stat_invisibly, _show *)

\* Every list of at most n elements of S.
RECURSIVE SeqsUpTo(_, _)
SeqsUpTo(S, n) ==
    IF n = 0 THEN {<<>>}
    ELSE LET shorter == SeqsUpTo(S, n - 1)
         IN  shorter \cup {Append(q, x) : q \in shorter, x \in S}

\* The FileEntry arguments tried: a directory, a link to a directory, a
\* directory inside the first, and a path that does not exist.
RootCandidates == {<<nD>>, <<nD, nL>>, <<nD, nG>>, <<nX>>}

\* The -x arguments tried: none, and the list 'x;g'.
ExcludesCandidates == {NoArg, SomeArg(nX \o <<";">> \o nG)}

\* Nowhere is access refused.
NoDenial == [stat |-> {}, owner |-> {}, list |-> <<>>]

\* The refusals tried, each a filesystem that raises PermissionError at one
\* place whenever the run gets there: listing d/a fails at once; listing d
\* fails after two children (and listing d/a at once); the stat of the child
\* d/a fails; the stat of d
\* (a root, and the directory of other roots) fails; the owner of d/g/x
\* cannot be read.
Denials ==
    {NoDenial,
     [NoDenial EXCEPT !.list = (<<nD, nA>> :> 0)],
     [NoDenial EXCEPT !.list = (<<nD>> :> 2) @@ (<<nD, nA>> :> 0)],
     [NoDenial EXCEPT !.stat = {<<nD, nA>>}],
     [NoDenial EXCEPT !.stat = {<<nD>>}],
     [NoDenial EXCEPT !.owner = {<<nD, nG, nX>>}]}

Init ==
    /\ args \in [files : SeqsUpTo(RootCandidates, MaxRoots),
                 recursive : BOOLEAN,
                 excludes : ExcludesCandidates]
    /\ platform \in {"Linux", "Windows", "Java"}
    /\ denied \in Denials
    /\ pc = "run"
    /\ file_i = 0
    /\ cur = <<>>
    /\ stack = <<>>
    /\ output_file = NoArg
    /\ my_out = "stdout"
    /\ out = <<>>
    /\ err = <<>>
    /\ names = [unames |-> <<>>, gnames |-> <<>>]
    /\ lookups = [k \in {"unames", "gnames"} \X (Uids \cup Gids) |-> 0]
    /\ ret = -1
    /\ exit_code = -1
    /\ sink_failed = FALSE
    /\ walking = FALSE

\* excludes_list of lines 268-269.
ExcludesList == Split(Str(args.excludes), ";")

\* The test of line 271.
IsExcluded(child) == BaseName(child) \in Range(ExcludesList)

\* A _show without the test of lines 262-263: it descends through links.
DescendsThroughLinks(file) == args.recursive /\ IsDir(file)

\* Whether _show goes on to the children of file, lines 256-264.
Descends(file) == args.recursive /\ IsDir(file) /\ ~IsLink(file)

\* A loop that ends at the first excluded child (break for continue).
BreakAfterExcluded(rest) == <<>>

\* What is left to enumerate after an excluded child, line 273 (continue).
AfterExcluded(rest) == Tail(rest)

\* A walk that queues the directories it finds and lists them after the
\* directory it is in (breadth first).
Enqueue(stk, frame) == <<frame>> \o stk

\* The for-loop of lines 265-270 as _show(file) enters it: the children the
\* lazy enumeration has still to give, and how many it gives before it
\* raises PermissionError (-1: it never does).
OpenLoop(file) ==
    [dir |-> file, rest |-> Glob(file),
     left |-> IF file \in DOMAIN denied.list THEN denied.list[file] ELSE 0 - 1]

\* The loop after the enumeration gave a child and rest is still to come.
Yielded(frame, rest) ==
    [frame EXCEPT !.rest = rest,
                  !.left = IF frame.left > 0 THEN frame.left - 1 ELSE frame.left]

\* The open calls once _show(file) enters its for-loop from inside the loops
\* of stk: the recursive call of line 276 runs to its end before the caller's
\* loop goes on, so the new loop is the innermost.
Push(stk, frame) == Append(stk, frame)

\* A handler inside the for-loop: after the notice the loop of the innermost
\* call goes on with the children still to come.
Resume(stk) == [stk EXCEPT ![Len(stk)].left = 0 - 1]

\* The open calls after the handler of lines 279-280 ran: the try of line 265
\* encloses the whole for-loop, so the PermissionError of the enumeration
\* ends the loop and the innermost call returns.
Abandon(stk) == SubSeq(stk, 1, Len(stk) - 1)

\* The caches and the lookup counts after a _stat_str call that ended as o.
Resolved(o) ==
    /\ names' = o.names
    /\ lookups' = [k \in DOMAIN lookups |->
                     IF k \in o.called THEN lookups[k] + 1 ELSE lookups[k]]

\* print(fileinfo_str, file=self.my_out), line 284, when it succeeds.
PutFileinfo(line) == out' = Append(out, line @@ [root |-> file_i])

\* An exception leaves _show_all, lines 212-225: with standard output as the
\* sink nothing catches it and it leaves run(); with the -o file the handler
\* of IOError (which is OSError, so PermissionError too) reports it and
\* _try_to_show returns 2.  The finally clause resets my_out.
Escape(exc) ==
    /\ stack' = <<>>
    /\ my_out' = "stdout"
    /\ IF ~output_file.given
       THEN /\ pc' = "raised"
            /\ err' = Append(err, [level |-> "Traceback", what |-> exc,
                                   path |-> <<>>, root |-> file_i])
            /\ ret' = ret
       ELSE /\ pc' = "returned"
            /\ err' = Append(err, [level |-> "ERROR",
                                   what |-> "Failed to write the output file",
                                   path |-> <<>>, root |-> file_i])
            /\ ret' = 2
    /\ UNCHANGED <<file_i, cur>>

\* A _show call returns with stk the calls still open: to the for-loop of its
\* caller, or, for a root, to the loop of _show_all (lines 230-236), which
\* goes to the next root or returns, and then run() returns 0.
Return(stk) ==
    /\ stack' = stk
    /\ UNCHANGED <<err, cur>>
    /\ IF stk # <<>>
       THEN pc' = "children" /\ UNCHANGED <<file_i, ret, my_out>>
       ELSE IF file_i < Len(args.files)
       THEN pc' = "prime" /\ file_i' = file_i + 1 /\ UNCHANGED <<ret, my_out>>
       ELSE pc' = "returned" /\ ret' = 0 /\ my_out' = "stdout"
                             /\ UNCHANGED file_i

\* run(), lines 158-210, up to the first root: the help for an empty list,
\* the choice of the sink, and the refusals for an -o file that exists.
\* _show_all (lines 228-229) starts with empty caches.
Run ==
    /\ pc = "run"
    /\ UNCHANGED <<args, platform, denied, cur, stack, out, lookups,
                   exit_code, sink_failed>>
    /\ \E output \in {NoArg, SomeArg(<<"o">>)}, force \in BOOLEAN,
          exists \in BOOLEAN, writable \in BOOLEAN, opens \in BOOLEAN :
         LET enter(sink) ==
                 /\ pc' = "prime"
                 /\ file_i' = 1
                 /\ my_out' = sink
                 /\ names' = [unames |-> <<>>, gnames |-> <<>>]
                 /\ walking' = TRUE
                 /\ output_file' = output
                 /\ UNCHANGED <<err, ret>>
             refuse(what) ==
                 /\ pc' = "returned"
                 /\ ret' = 2
                 /\ err' = Append(err, [level |-> "ERROR", what |-> what,
                                        path |-> <<>>, root |-> 0])
                 /\ output_file' = output
                 /\ UNCHANGED <<file_i, my_out, names, walking>>
         IN  IF Len(args.files) < 1
             THEN /\ pc' = "returned"
                  /\ ret' = 1
                  /\ UNCHANGED <<file_i, my_out, names, walking, err,
                                 output_file>>
             ELSE IF ~output.given THEN enter("stdout")
             ELSE IF exists /\ writable /\ ~force
             THEN refuse("Already exists the output file")
             ELSE IF exists /\ ~writable
             THEN refuse("The output file is not a writable")
             ELSE IF opens THEN enter("file")
             ELSE refuse("Failed to write the output file")

\* _dir_stat_invisibly(file, names), lines 238-250, for the root _show_all is
\* at: the directory of the root, or '.', is formatted and the line dropped.
Prime ==
    /\ pc = "prime"
    /\ UNCHANGED <<args, platform, denied, output_file, out, exit_code,
                   sink_failed, walking>>
    /\ LET file == args.files[file_i]
           a_directory == Dirname(file)
       IN  \E o \in {StatStr(IF a_directory # <<>> THEN a_directory ELSE Dot,
                              names)} :
               /\ Resolved(o)
               /\ IF o.exc = "none"
                  THEN /\ pc' = "show"
                       /\ cur' = file
                       /\ UNCHANGED <<file_i, stack, my_out, err, ret>>
                  ELSE Escape(o.exc)

\* _show(file, names), lines 252-264, for file = cur: the line of the entry
\* is formatted and written, then the call returns or starts the loop over
\* the children.  A PermissionError of _stat_str is caught by the caller's
\* handler of lines 277-278, which writes its notice, when the entry is a
\* child, and leaves _show_all when it is a root.  A failed write is an
\* OSError no handler of _show catches.
Show ==
    /\ pc = "show"
    /\ UNCHANGED <<args, platform, denied, output_file, exit_code, walking>>
    /\ \E o \in {StatStr(cur, names)} :
           /\ Resolved(o)
           /\ IF o.exc # "none" /\ stack = <<>>
              THEN /\ UNCHANGED <<out, sink_failed>>
                   /\ Escape(o.exc)
              ELSE \E written \in BOOLEAN :
                     IF ~written
                     THEN /\ sink_failed' = TRUE
                          /\ out' = out
                          /\ Escape("OSError")
                     ELSE IF o.exc # "none"
                     THEN /\ PutFileinfo(NoticeLine("skip", cur))
                          /\ sink_failed' = sink_failed
                          /\ pc' = "children"
                          /\ UNCHANGED <<file_i, cur, stack, my_out, err, ret>>
                     ELSE /\ PutFileinfo(o.line)
                          /\ sink_failed' = sink_failed
                          /\ IF Descends(cur)
                             THEN /\ stack' = Push(stack, OpenLoop(cur))
                                  /\ pc' = "children"
                                  /\ UNCHANGED <<file_i, cur, my_out, err, ret>>
                             ELSE Return(stack)

\* One step of the for-loop of lines 265-280 of the innermost open _show:
\* the enumeration raises PermissionError and the notice of lines 279-280 is
\* written, or it is exhausted, or it gives a child, which is excluded with a
\* warning (lines 271-273) or shown (lines 274-276).
Children ==
    /\ pc = "children"
    /\ UNCHANGED <<args, platform, denied, output_file, names, lookups,
                   exit_code, walking>>
    /\ LET n == Len(stack)
           frame == stack[n]
           outer == SubSeq(stack, 1, n - 1)
       IN  IF frame.left = 0
           THEN \E written \in BOOLEAN :
                  IF ~written
                  THEN /\ sink_failed' = TRUE
                       /\ out' = out
                       /\ Escape("OSError")
                  ELSE /\ PutFileinfo(NoticeLine("skipchildren", frame.dir))
                       /\ sink_failed' = sink_failed
                       /\ Return(Abandon(stack))
           ELSE IF frame.rest = <<>>
           THEN /\ UNCHANGED <<out, sink_failed>>
                /\ Return(outer)
           ELSE /\ UNCHANGED <<out, sink_failed, file_i, my_out, ret>>
                /\ LET child == Head(frame.rest)
                   IN  IF IsExcluded(child)
                       THEN /\ err' = Append(err,
                                   [level |-> "WARNING",
                                    what |-> "Skiping sub-directory",
                                    path |-> child, root |-> file_i])
                            /\ stack' = [stack EXCEPT ![n] =
                                   Yielded(frame, AfterExcluded(frame.rest))]
                            /\ UNCHANGED <<pc, cur>>
                       ELSE /\ stack' = [stack EXCEPT ![n] =
                                   Yielded(frame, Tail(frame.rest))]
                            /\ cur' = child
                            /\ pc' = "show"
                            /\ err' = err

\* The __main__ entry point, lines 459-460: the value run() returned is
\* dropped, so the process exits with 0; an exception that left run() ends the
\* process with a traceback and status 1.
MainExit ==
    /\ pc \in {"returned", "raised"}
    /\ pc' = "exited"
    /\ exit_code' = IF pc = "raised" THEN 1 ELSE 0
    /\ UNCHANGED <<args, platform, denied, file_i, cur, stack, output_file,
                   my_out, out, err, names, lookups, ret, sink_failed, walking>>

Next == Run \/ Prime \/ Show \/ Children \/ MainExit

Spec == Init /\ [][Next]_vars

-----------------------------------------------------------------------------
(* Vocabulary of the properties *)

Terminated == pc = "exited"

\* run() returned 0: every root was walked to its end.
Completed == Terminated /\ walking /\ ret = 0

\* The root a line or a message belongs to.
RootOf(x) == args.files[x.root]

\* A line that stands for the visit of its path: the record, the
\* no-such-file line, or the notice that the entry was skipped.
OwnLine(l) == l.kind \in {"rec", "nosuch", "skip"}

LinesOf(r, path) == {i \in 1..Len(out) : out[i].root = r /\ out[i].path = path}

OwnLinesOf(r, path) == {i \in LinesOf(r, path) : OwnLine(out[i])}

WarningsOf(r, path) ==
    {i \in 1..Len(err) : /\ err[i].level = "WARNING"
                         /\ err[i].root = r
                         /\ err[i].path = path}

\* The entries of the excludes the caller gave: none without -x.
GivenExcludes ==
    IF args.excludes.given THEN Range(Split(args.excludes.text, ";")) ELSE {}

\* The longest common prefix of two paths.
RECURSIVE CommonPrefix(_, _)
CommonPrefix(p, q) ==
    IF p = <<>> \/ q = <<>> \/ Head(p) # Head(q) THEN <<>>
    ELSE <<Head(p)>> \o CommonPrefix(Tail(p), Tail(q))

RootIndexes == 1..Len(args.files)

\* The directories whose loop over the children ran to its end in the walk of
\* root r: shown, descended, and without a notice of skipped children.
Enumerated(r) ==
    {out[i].path : i \in {j \in 1..Len(out) :
        /\ out[j].root = r
        /\ out[j].kind = "rec"
        /\ Descends(out[j].path)
        /\ ~\E k \in LinesOf(r, out[j].path) : out[k].kind = "skipchildren"}}

-----------------------------------------------------------------------------
(* C1: identity caching *)

\* C1 as stated: within one run the platform lookup runs at most once for
\* every uid and every gid, whatever it returned the first time.
C1_LookupAtMostOnce == \A k \in DOMAIN lookups : lookups[k] <= 1

\* Every record shows, for an id the cache holds, the cached name.
ShowsCachedNames ==
    \A i \in 1..Len(out) :
        out[i].kind = "rec" =>
            /\ out[i].uname # None =>
                   /\ out[i].uid \in DOMAIN names.unames
                   /\ names.unames[out[i].uid] = out[i].uname
            /\ out[i].gname # None =>
                   /\ out[i].gid \in DOMAIN names.gnames
                   /\ names.gnames[out[i].gid] = out[i].gname

\* An id that is cached stays cached under the same name and is not looked up
\* again.
CachedIsFinal(cache) ==
    \A xid \in DOMAIN names[cache] :
        /\ xid \in DOMAIN names'[cache]
        /\ names'[cache][xid] = names[cache][xid]
        /\ lookups'[<<cache, xid>>] = lookups[<<cache, xid>>]

\* C1 (amended): once the platform lookup has given a name for a uid or a gid
\* (a real name, '(missing)' or '(not-implemented)'), the name is cached, it
\* never changes, every later query of that id returns it, and the lookup is
\* not invoked for that id again: the lookups of an id all precede its
\* caching.  An id whose lookup gives None or raises is looked up again by
\* the next query.
C1_CachedLookedUpOnce ==
    /\ [](ShowsCachedNames /\ \A k \in DOMAIN lookups :
              k[2] \in DOMAIN names[k[1]] => lookups[k] >= 1)
    /\ [][CachedIsFinal("unames") /\ CachedIsFinal("gnames")]_vars

\* Two records of the same uid, resolved by one lookup.
C1_Witness ==
    \E i, j \in 1..Len(out) :
        /\ i < j
        /\ out[i].kind = "rec" /\ out[j].kind = "rec"
        /\ out[i].uid = out[j].uid
        /\ out[i].uname = out[j].uname
        /\ lookups[<<"unames", out[i].uid>>] = 1

-----------------------------------------------------------------------------
(* C8: no null name in the caches *)

\* C8: every value of unames and gnames is a name, never None; and a
\* _get_xname call whose lookup yields None returns None and leaves the cache
\* as it was.
C8_NoNullCached ==
    /\ \A cache \in {"unames", "gnames"} :
           \A xid \in DOMAIN names[cache] : names[cache][xid] # None
    /\ \A cache \in {"unames", "gnames"}, xid \in Uids \cup Gids :
           xid \notin DOMAIN names[cache] =>
               LET o == GetXname(xid, Returns(None), names[cache])
               IN  /\ o.exc = "none"
                   /\ o.ret = None
                   /\ o.xnames = names[cache]
    /\ \A i \in 1..Len(out) :
           (out[i].kind = "rec" /\ out[i].gname = None) =>
               lookups[<<"gnames", out[i].gid>>] >= 1

\* A record was written whose group lookup gave None, and its gid is still
\* not cached.
C8_Witness ==
    \E i \in 1..Len(out) :
        /\ out[i].kind = "rec"
        /\ out[i].gname = None
        /\ out[i].gid \notin DOMAIN names.gnames

-----------------------------------------------------------------------------
(* C2 and C9: exclusion *)

\* Whether a component of path below the root of the walk is an entry of the
\* excludes given.
BelowExcluded(root, path) ==
    \E k \in (Len(root) + 1)..Len(path) : path[k] \in GivenExcludes

\* C2: in the walk of a root, a child (at any depth) whose name is an entry of
\* the excludes given gets no line, and nothing below it gets one; it gets at
\* most one warning, and exactly one once the loop that enumerated it ran to
\* its end; and in such a loop, under -x, every child whose name is no entry
\* of excludes is shown exactly once (and, being shown, is descended like any
\* directory).
C2_ExcludedSubtreeSilent ==
    /\ \A i \in 1..Len(out) : ~BelowExcluded(RootOf(out[i]), out[i].path)
    /\ \A i \in 1..Len(err) :
           err[i].level = "WARNING" =>
               Cardinality(WarningsOf(err[i].root, err[i].path)) = 1
    /\ (Completed /\ args.excludes.given) =>
           \A r \in RootIndexes : \A dir \in Enumerated(r) :
               \A c \in Range(Glob(dir)) :
                   IF BaseName(c) \in GivenExcludes
                   THEN /\ Cardinality(WarningsOf(r, c)) = 1
                        /\ LinesOf(r, c) = {}
                   ELSE /\ Cardinality(OwnLinesOf(r, c)) = 1
                        /\ WarningsOf(r, c) = {}

\* The walk of d with -x 'x;g' ended: d/g was excluded with one warning, the
\* children listed after it, d/None and d/l, have their lines, and the
\* directory d/a listed before it was descended.
C2_Witness ==
    /\ Completed
    /\ args.excludes = SomeArg(nX \o <<";">> \o nG)
    /\ \E r \in RootIndexes :
           /\ Cardinality(WarningsOf(r, <<nD, nG>>)) = 1
           /\ LinesOf(r, <<nD, nG>>) = {}
           /\ LinesOf(r, <<nD, nG, nX>>) = {}
           /\ OwnLinesOf(r, <<nD, nNone>>) # {}
           /\ OwnLinesOf(r, <<nD, nL>>) # {}
           /\ OwnLinesOf(r, <<nD, nA, nF>>) # {}

\* C9 as stated: a child is skipped by the exclusion rule only if its name is
\* an entry of the excludes the caller gave; without -x nothing is skipped
\* and no warning is written.
C9_OnlyGivenExcluded ==
    \A i \in 1..Len(err) :
        err[i].level = "WARNING" => BaseName(err[i].path) \in GivenExcludes

-----------------------------------------------------------------------------
(* C3: symbolic links are not descended *)

\* Whether the path is a symbolic link to a directory.
IsDirLink(path) == IsLink(path) /\ IsDir(path)

\* Whether the walk that started at root went through a symbolic link to
\* reach path: the root or a path between the root and path is a link.
ThroughLink(root, path) ==
    \E k \in Len(root)..(Len(path) - 1) : IsLink(SubSeq(path, 1, k))

\* C3: a symbolic link to a directory, root or child, has at most one line in
\* the walk of a root, which for a formatted link is its record with the
\* '-> target' suffix; no line of that walk lies below the link; and when
\* the run completes, the link has exactly one line, and a root that is such
\* a link has that line only.
C3_LinksNotDescended ==
    /\ \A i \in 1..Len(out) :
           /\ ~ThroughLink(RootOf(out[i]), out[i].path)
           /\ IsDirLink(out[i].path) =>
                  /\ LinesOf(out[i].root, out[i].path) = {i}
                  /\ out[i].kind \in {"rec", "skip"}
                  /\ out[i].kind = "rec" =>
                         out[i].link = FS[LResolve(out[i].path)].target
    /\ Completed =>
           \A r \in RootIndexes :
               /\ IsDirLink(args.files[r]) =>
                      /\ Cardinality({i \in 1..Len(out) : out[i].root = r}) = 1
                      /\ \A i \in LinesOf(r, args.files[r]) : out[i].kind = "rec"
               /\ \A dir \in Enumerated(r) : \A c \in Range(Glob(dir)) :
                      (IsDirLink(c) /\ ~IsExcluded(c)) =>
                          Cardinality(LinesOf(r, c)) = 1

\* A recursive run ended in which the link d/l was shown once as a root and
\* once as a child of d.
C3_Witness ==
    /\ Completed
    /\ args.recursive
    /\ \E r, q \in RootIndexes :
           /\ args.files[r] = <<nD, nL>>
           /\ \E i \in LinesOf(r, <<nD, nL>>) :
                  out[i].kind = "rec" /\ out[i].link = <<nD>>
           /\ args.files[q] = <<nD>>
           /\ \E i \in LinesOf(q, <<nD, nL>>) : out[i].kind = "rec"

-----------------------------------------------------------------------------
(* C7: depth-first pre-order *)

\* C7: the lines of one root precede the lines of the next; within a root the
\* own line of a directory precedes every line below it; and the lines of one
\* subtree are consecutive: whatever prefix two lines of a root share, the
\* line written just before the later one shares it too.
C7_PreOrder ==
    \A i, k \in 1..Len(out) :
        i < k =>
            /\ out[i].root <= out[k].root
            /\ out[i].root = out[k].root =>
                   /\ IsPrefix(CommonPrefix(out[i].path, out[k].path),
                               out[k - 1].path)
                   /\ out[k - 1].root = out[k].root
                   /\ ~(/\ OwnLine(out[k])
                        /\ IsPrefix(out[k].path, out[i].path)
                        /\ out[k].path # out[i].path)

\* A run wrote d, d/a, d/a/f and then the sibling d/g with its child, and
\* after that the lines of a second root.
C7_Witness ==
    \E i \in 1..Len(out) :
        /\ i + 5 <= Len(out)
        /\ out[i].path = <<nD>>
        /\ out[i + 1].path = <<nD, nA>>
        /\ out[i + 2].path = <<nD, nA, nF>>
        /\ out[i + 3].path = <<nD, nG>>
        /\ out[i + 4].path = <<nD, nG, nX>>
        /\ out[Len(out)].root > out[i].root

-----------------------------------------------------------------------------
(* C10: termination *)

\* The most lines the walk of one root can write: for every entry of the
\* filesystem its own line and a notice for its children, and the line of a
\* root that does not exist.
MaxLinesOfRoot == 2 * Cardinality(DOMAIN FS) + 1

\* The guards of the actions: Run, Prime for a root of the list, Show, Children
\* with a loop open, MainExit.
CanStep ==
    \/ pc = "run"
    \/ pc = "prime" /\ file_i \in RootIndexes
    \/ pc = "show"
    \/ pc = "children" /\ stack # <<>>
    \/ pc \in {"returned", "raised"}

\* C10: the run cannot go on for ever.  It is never stuck before the process
\* exits; in the walk of a root no path is visited twice; and the lines a
\* root adds and the depth of the recursion are bounded by the size of the
\* filesystem, whatever cycles its links form.  Every step but the skipping
\* of an excluded child (which shortens the children left) visits a path,
\* writes a line, or returns from a call, so a bounded count of visits and
\* lines is a bounded run.
C10_Terminates ==
    /\ Terminated \/ CanStep
    /\ \A i \in 1..Len(out) :
           OwnLine(out[i]) => OwnLinesOf(out[i].root, out[i].path) = {i}
    /\ \A r \in RootIndexes :
           Cardinality({i \in 1..Len(out) : out[i].root = r}) <= MaxLinesOfRoot
    /\ Len(stack) <= Cardinality(DOMAIN FS)

\* The recursive walk of d, which holds the link d/l to d itself, ran to its
\* end and the process exited.
C10_Witness ==
    /\ Completed
    /\ args.recursive
    /\ \E r \in RootIndexes :
           /\ args.files[r] = <<nD>>
           /\ OwnLinesOf(r, <<nD, nL>>) # {}
           /\ OwnLinesOf(r, <<nD, nA, nF>>) # {}

-----------------------------------------------------------------------------
(* C4, C5, C6: failures *)

\* C4 as stated: when the enumeration of a directory raises a permission
\* error, at the first or at a later step, the output has exactly one
\* '(Skipping children of <dir>)' line for the directory and no record line
\* of any of its children.
C4_NoPartialChildren ==
    \A i \in 1..Len(out) :
        out[i].kind = "skipchildren" =>
            /\ \A j \in LinesOf(out[i].root, out[i].path) :
                   out[j].kind = "skipchildren" => j = i
            /\ \A j \in 1..Len(out) :
                   ~(/\ out[j].root = out[i].root
                     /\ out[j].kind = "rec"
                     /\ Len(out[j].path) > 0
                     /\ Dirname(out[j].path) = out[i].path)

\* C5 as stated: a PermissionError of the filesystem never aborts the run:
\* unless a write to the sink failed, a run that started walking visits every
\* root and run() returns 0.
C5_PermissionNeverAborts ==
    (Terminated /\ walking /\ ~sink_failed) =>
        /\ ret = 0
        /\ \A r \in RootIndexes : \E i \in 1..Len(out) : out[i].root = r

\* C6 as stated: when a write to the sink fails, for either sink, the failure
\* is reported on the error channel, run() returns 2 and the process exits
\* with a status that is not 0.
C6_SinkFailureStatus ==
    (Terminated /\ sink_failed) =>
        /\ \E i \in 1..Len(err) : err[i].level \in {"ERROR", "Traceback"}
        /\ ret = 2
        /\ exit_code # 0

-----------------------------------------------------------------------------
\* A path that lies under the directory p, at any depth.
StrictlyBelow(p, path) == Len(path) > Len(p) /\ IsPrefix(p, path)

\* C4, amended: a permission error of the enumeration of a directory gives
\* exactly one '(Skipping children of <dir>)' line for the directory in the
\* walk of a root; no line of anything under the directory follows it; the
\* children that have lines are among those the enumeration gave before it
\* raised, so an error at the first step leaves no line under the directory;
\* and in a run that ran to its end every directory whose enumeration was to
\* fail has its notice, while every directory without one, the siblings
\* included, has all its children that were not excluded listed.
C4_SkipNoticeEndsChildren ==
    /\ \A i \in 1..Len(out) :
           out[i].kind = "skipchildren" =>
               LET r == out[i].root
                   p == out[i].path
               IN  /\ p \in DOMAIN denied.list
                   /\ \A j \in LinesOf(r, p) :
                          out[j].kind = "skipchildren" => j = i
                   /\ \A j \in (i + 1)..Len(out) :
                          out[j].root = r => ~StrictlyBelow(p, out[j].path)
                   /\ \A j \in 1..Len(out) :
                          (out[j].root = r /\ StrictlyBelow(p, out[j].path)) =>
                              \E k \in 1..denied.list[p] :
                                  IsPrefix(Glob(p)[k], out[j].path)
    /\ Completed =>
           \A r \in RootIndexes :
               /\ \A i \in 1..Len(out) :
                      (/\ out[i].root = r
                       /\ out[i].kind = "rec"
                       /\ Descends(out[i].path)
                       /\ out[i].path \in DOMAIN denied.list) =>
                          \E k \in LinesOf(r, out[i].path) :
                              out[k].kind = "skipchildren"
               /\ \A p \in Enumerated(r) :
                      \A k \in 1..Len(Glob(p)) :
                          ~IsExcluded(Glob(p)[k]) =>
                              OwnLinesOf(r, Glob(p)[k]) # {}

\* The recursive walk of d ran to its end where listing d/a fails at once and
\* listing d fails after two children: d/a has its notice and nothing under
\* it, d has its notice after the lines of d/a, and d/None, which the
\* enumeration never gave, has no line.
C4_Witness ==
    /\ Completed
    /\ \E r \in RootIndexes :
           /\ args.files[r] = <<nD>>
           /\ \E i \in LinesOf(r, <<nD, nA>>), j \in LinesOf(r, <<nD>>) :
                  /\ out[i].kind = "skipchildren"
                  /\ out[j].kind = "skipchildren"
                  /\ i < j
           /\ OwnLinesOf(r, <<nD, nA>>) # {}
           /\ OwnLinesOf(r, <<nD, nA, nF>>) = {}
           /\ OwnLinesOf(r, <<nD, nNone>>) = {}

====
